---- MODULE Spec2Model ----
(***************************************************************************)
(* The connection pool, the tool aggregator and the call router of the    *)
(* MCP gateway (src/src/pool/manager.ts, aggregator.ts, client.ts), with   *)
(* the scope test of src/src/config.ts and the /mcp session layer of       *)
(* src/src/server/transport.ts and gateway.ts.                             *)
(*                                                                         *)
(* Strings are sequences of characters, so that namespacing by             *)
(* concatenation can collide exactly where it does in the code.  Maps are  *)
(* JavaScript Maps: sequences of key/value pairs in first-insertion order. *)
(* An async method is cut at its awaits: the code between two awaits is    *)
(* one action (the event loop runs it without interleaving).  The fields   *)
(* description and inputSchema of a tool are carried through unchanged by  *)
(* the code and are left out.                                              *)
(***************************************************************************)
EXTENDS Naturals, Sequences, FiniteSets, TLC

VARIABLES
    serverConfigs,    \* ServerPoolManager.serverConfigs: the definitions, in order
    clients,          \* every LocalServerClient constructed so far
    servers,          \* ServerPoolManager.servers: Map id -> client
    aggregatedTools,  \* ToolAggregator.aggregatedTools: Map namespaced name -> tool
    starts,           \* the startAll() calls in flight: the set of their task sets
    stop,             \* the stopAll() call in flight, if any
    started,          \* some startAll() call has returned
    session,          \* the /mcp session under observation, if any
    last              \* the outcome of the operation that just returned

vars == <<serverConfigs, clients, servers, aggregatedTools, starts, stop, started,
         session, last>>

---------------------------------------------------------------------------
(* Bounds of the model *)

\* the number of LocalServerClient objects constructed in one run
MaxClients == 2

\* the number of calls one LocalServerClient has in flight at a time (the calls
\* in flight are kept by the name they were sent with)
MaxInFlight == 1

---------------------------------------------------------------------------
(* Values *)

\* an optional value: Absent (undefined) or Some(x)
Absent == {}
Some(x) == {x}
ValueOf(o) == CHOOSE x \in o : TRUE

NAMESPACE_SEPARATOR == "_"

IdA == <<"a">>
IdB == <<"b">>
IdAB == <<"a", "_", "b">>

ToolPing == <<"p", "i", "n", "g">>
ToolC == <<"c">>
ToolBC == <<"b", "_", "c">>
ToolNonexistent == <<"n", "o", "n", "e", "_", "t", "o", "o", "l">>

\* the ids a definition may carry (the schema asks only for a non-empty string)
Ids == {IdA, IdB, IdAB}

\* the ids of the definition lists: one backend; two with distinct ids; the same
\* id twice; two distinct ids whose namespaced names can collide
IdLists == {<<IdA>>, <<IdA, IdB>>, <<IdA, IdA>>, <<IdA, IdAB>>}

\* config.requiredScopes is optional: backend a leaves it out, the others ask
\* for two scopes
RequiredScopesOf(id) == IF id = IdA THEN Absent ELSE Some(<<"read", "execute">>)

\* what the backend launched for a definition may answer to listTools
BackendTools(id) ==
    IF id = IdA THEN {<<ToolPing>>, <<ToolBC>>}
    ELSE IF id = IdB THEN {<<ToolPing>>, <<ToolPing, ToolPing>>}
    ELSE {<<ToolC, ToolC>>}

\* the backend definitions the lists are drawn from
McpServerConfig ==
    {[id |-> id, enabled |-> e, requiredScopes |-> RequiredScopesOf(id)] :
        id \in Ids, e \in BOOLEAN}

\* the caller identities handed to the pool: absent, or a user with scopes
NoUser == Absent
UserScopeLists == {<<>>, <<"read">>, <<"read", "execute">>}
Users == {NoUser} \cup {Some([scopes |-> s]) : s \in UserScopeLists}

Range(s) == {s[i] : i \in 1..Len(s)}

---------------------------------------------------------------------------
(* JavaScript Map: a sequence of [k, v] in first-insertion order *)

MapHas(m, key) == \E i \in 1..Len(m) : m[i].k = key

\* Map.get: Absent when the key is missing
MapGet(m, key) ==
    IF MapHas(m, key)
    THEN Some(m[CHOOSE i \in 1..Len(m) : m[i].k = key].v)
    ELSE Absent

\* a slip: set() leaves the value of a key that is there
MapSet_KeepFirst(m, key, val) ==
    IF MapHas(m, key) THEN m ELSE Append(m, [k |-> key, v |-> val])

\* a slip: set() appends without looking for the key
MapSet_Append(m, key, val) == Append(m, [k |-> key, v |-> val])

MapSet(m, key, val) ==
    IF MapHas(m, key)
    THEN [i \in 1..Len(m) |-> IF m[i].k = key THEN [k |-> key, v |-> val] ELSE m[i]]
    ELSE Append(m, [k |-> key, v |-> val])

MapValues(m) == [i \in 1..Len(m) |-> m[i].v]

---------------------------------------------------------------------------
(* src/src/config.ts *)

\* a slip: some() where the code has every()
hasRequiredScopes_Some(userScopes, requiredScopes) ==
    IF Len(requiredScopes) = 0
    THEN TRUE
    ELSE \E i \in 1..Len(requiredScopes) :
            \E j \in 1..Len(userScopes) : userScopes[j] = requiredScopes[i]

hasRequiredScopes(userScopes, requiredScopes) ==
    IF Len(requiredScopes) = 0
    THEN TRUE
    ELSE \A i \in 1..Len(requiredScopes) :
            \E j \in 1..Len(userScopes) : userScopes[j] = requiredScopes[i]

---------------------------------------------------------------------------
(* src/src/pool/client.ts: the getters of LocalServerClient *)

\* a LocalServerClient right after its constructor
NewClient(cfg) ==
    [cfg |-> cfg, connected |-> FALSE, client |-> FALSE, transport |-> FALSE,
     tools |-> <<>>, cpc |-> "new", task |-> "pending", inflight |-> <<>>]

ClientId(c) == serverConfigs[clients[c].cfg].id

ClientRequiredScopes(c) ==
    LET r == serverConfigs[clients[c].cfg].requiredScopes
    IN  IF r = Absent THEN <<>> ELSE ValueOf(r)

ClientGetTools(c) == clients[c].tools

---------------------------------------------------------------------------
(* src/src/pool/aggregator.ts *)

buildNamespacedName(serverId, toolName) ==
    serverId \o <<NAMESPACE_SEPARATOR>> \o toolName

\* the body of the inner loop of aggregate for one connected client
RECURSIVE AggregateTools(_, _, _, _)
AggregateTools(acc, serverId, tools, i) ==
    IF i > Len(tools) THEN acc
    ELSE LET namespacedName == buildNamespacedName(serverId, tools[i])
             aggregatedTool == [name |-> namespacedName, serverId |-> serverId,
                                originalName |-> tools[i]]
         IN  AggregateTools(MapSet(acc, namespacedName, aggregatedTool),
                            serverId, tools, i + 1)

\* the outer loop of aggregate over the entries of the servers Map
RECURSIVE AggregateServers(_, _, _, _)
AggregateServers(acc, srv, i, cls) ==
    IF i > Len(srv) THEN acc
    ELSE IF ~cls[srv[i].v].connected
         THEN AggregateServers(acc, srv, i + 1, cls)
         ELSE AggregateServers(
                  AggregateTools(acc, srv[i].k, cls[srv[i].v].tools, 1),
                  srv, i + 1, cls)

\* a slip: the previous snapshot is not cleared
aggregate_NoClear(srv, cls) == AggregateServers(aggregatedTools, srv, 1, cls)

\* ToolAggregator.aggregate: clear, then insert every tool of every connected client
aggregate(srv, cls) == AggregateServers(<<>>, srv, 1, cls)

\* ToolAggregator.getTools
AggregatorGetTools == MapValues(aggregatedTools)

\* a slip: the namespaced name is handed on instead of the original one
resolveToolCall_Namespaced(namespacedName) ==
    LET tool == MapGet(aggregatedTools, namespacedName)
    IN  IF tool = Absent
        THEN [error |-> "ToolNotFoundError"]
        ELSE [error |-> "none", serverId |-> ValueOf(tool).serverId,
              toolName |-> ValueOf(tool).name]

\* a slip: no throw on an unknown name
resolveToolCall_NoThrow(namespacedName) ==
    LET tool == MapGet(aggregatedTools, namespacedName)
    IN  IF tool = Absent
        THEN [error |-> "none", serverId |-> <<>>, toolName |-> namespacedName]
        ELSE [error |-> "none", serverId |-> ValueOf(tool).serverId,
              toolName |-> ValueOf(tool).originalName]

\* the position of the first separator of a name, counted from 1, and 0 when
\* there is none (indexOf counts from 0 and answers -1)
indexOfSeparator(str) ==
    IF \E i \in 1..Len(str) : str[i] = NAMESPACE_SEPARATOR
    THEN CHOOSE i \in 1..Len(str) :
             /\ str[i] = NAMESPACE_SEPARATOR
             /\ \A j \in 1..(i - 1) : str[j] # NAMESPACE_SEPARATOR
    ELSE 0

\* a slip: lastIndexOf where the code has indexOf
parseNamespacedName_Last(namespacedName) ==
    IF indexOfSeparator(namespacedName) = 0
    THEN Absent
    ELSE LET separatorIndex ==
                 CHOOSE i \in 1..Len(namespacedName) :
                     /\ namespacedName[i] = NAMESPACE_SEPARATOR
                     /\ \A j \in (i + 1)..Len(namespacedName) :
                            namespacedName[j] # NAMESPACE_SEPARATOR
         IN  Some([serverId |-> SubSeq(namespacedName, 1, separatorIndex - 1),
                   toolName |-> SubSeq(namespacedName, separatorIndex + 1,
                                       Len(namespacedName))])

\* ToolAggregator.parseNamespacedName: null (Absent) without a separator,
\* otherwise the parts before and after the first one
parseNamespacedName(namespacedName) ==
    LET separatorIndex == indexOfSeparator(namespacedName)
    IN  IF separatorIndex = 0
        THEN Absent
        ELSE Some([serverId |-> SubSeq(namespacedName, 1, separatorIndex - 1),
                   toolName |-> SubSeq(namespacedName, separatorIndex + 1,
                                       Len(namespacedName))])

\* a slip: the two fields of the answer are taken from one another
resolveToolCall_Swapped(namespacedName) ==
    LET tool == MapGet(aggregatedTools, namespacedName)
    IN  IF tool = Absent
        THEN [error |-> "ToolNotFoundError"]
        ELSE [error |-> "none", serverId |-> ValueOf(tool).originalName,
              toolName |-> ValueOf(tool).serverId]

\* ToolAggregator.resolveToolCall: the thrown error, or the owner and the tool
resolveToolCall(namespacedName) ==
    LET tool == MapGet(aggregatedTools, namespacedName)
    IN  IF tool = Absent
        THEN [error |-> "ToolNotFoundError"]
        ELSE [error |-> "none", serverId |-> ValueOf(tool).serverId,
              toolName |-> ValueOf(tool).originalName]


---------------------------------------------------------------------------
(* src/src/pool/client.ts: callTool *)

\* the guard of callTool: the thrown error, or the request sent to the backend
callTool(c, name) ==
    IF ~clients[c].client \/ ~clients[c].connected
    THEN [outcome |-> "ServerConnectionError", sent |-> {}]
    ELSE [outcome |-> "forwarded", sent |-> {[client |-> c, name |-> name]}]

\* callTool after its await: the result of the backend is returned as it is, and
\* an error of the backend or of the channel is wrapped in ServerExecutionError
callToolSettles(answered) ==
    IF answered THEN "result" ELSE "ServerExecutionError"

---------------------------------------------------------------------------
(* src/src/pool/manager.ts: the synchronous methods *)

\* a slip: the filter is skipped
getToolsForUser_Unfiltered(user) == AggregatorGetTools

\* ServerPoolManager.getToolsForUser
getToolsForUser(user) ==
    LET allTools == AggregatorGetTools
        Keep(tool) ==
            LET server == MapGet(servers, tool.serverId)
            IN  IF server = Absent
                THEN FALSE
                ELSE hasRequiredScopes(ValueOf(user).scopes,
                                       ClientRequiredScopes(ValueOf(server)))
    IN  IF user = Absent THEN allTools ELSE SelectSeq(allTools, Keep)

\* a slip: routeToolCall without its scope check
routeToolCall_NoScopeCheck(namespacedToolName, user) ==
    LET resolved == resolveToolCall(namespacedToolName)
    IN  IF resolved.error # "none"
        THEN [outcome |-> resolved.error, sent |-> {}]
        ELSE LET server == MapGet(servers, resolved.serverId)
             IN  IF server = Absent
                 THEN [outcome |-> "ServerNotFoundError", sent |-> {}]
                 ELSE callTool(ValueOf(server), resolved.toolName)

\* ServerPoolManager.routeToolCall up to the await inside callTool
routeToolCall(namespacedToolName, user) ==
    LET resolved == resolveToolCall(namespacedToolName)
    IN  IF resolved.error # "none"
        THEN [outcome |-> resolved.error, sent |-> {}]
        ELSE LET server == MapGet(servers, resolved.serverId)
             IN  IF server = Absent
                 THEN [outcome |-> "ServerNotFoundError", sent |-> {}]
                 ELSE IF user # Absent
                         /\ ~hasRequiredScopes(ValueOf(user).scopes,
                                               ClientRequiredScopes(ValueOf(server)))
                 THEN [outcome |-> "AuthorizationError", sent |-> {}]
                 ELSE callTool(ValueOf(server), resolved.toolName)

\* a slip: the pool catches what callTool throws and throws an error of its own
routeToolCallSettles_Rewrap(outcome) ==
    IF outcome = "result" THEN outcome ELSE "GatewayError"

\* routeToolCall after its await: return await server.callTool(toolName, args)
routeToolCallSettles(outcome) == outcome

\* a slip: the status is mapped over the enabled configs only
getStatus_EnabledOnly ==
    LET enabled == SelectSeq(serverConfigs, LAMBDA config : config.enabled)
    IN  [i \in 1..Len(enabled) |->
            [id |-> enabled[i].id, connected |-> FALSE, toolCount |-> 0,
             error |-> Some("Not connected")]]

\* a slip: the error is reported for the ids the pool does not hold
getStatus_ErrorIfNotHeld ==
    [i \in 1..Len(serverConfigs) |->
        LET config == serverConfigs[i]
            client == MapGet(servers, config.id)
            isConnected == IF client = Absent THEN FALSE
                           ELSE clients[ValueOf(client)].connected
        IN  [id |-> config.id,
             connected |-> isConnected,
             toolCount |-> IF client = Absent THEN 0
                           ELSE Len(ClientGetTools(ValueOf(client))),
             error |-> IF client = Absent THEN Some("Not connected") ELSE Absent]]

\* ServerPoolManager.getStatus
getStatus ==
    [i \in 1..Len(serverConfigs) |->
        LET config == serverConfigs[i]
            client == MapGet(servers, config.id)
            isConnected == IF client = Absent THEN FALSE
                           ELSE clients[ValueOf(client)].connected
        IN  [id |-> config.id,
             connected |-> isConnected,
             toolCount |-> IF client = Absent THEN 0
                           ELSE Len(ClientGetTools(ValueOf(client))),
             error |-> IF isConnected THEN Absent ELSE Some("Not connected")]]

---------------------------------------------------------------------------
(* Init: the state after new ServerPoolManager(serverConfigs) *)

NoOp == [op |-> "none"]

ConfigLists ==
    {l \in UNION {[1..Len(ids) -> McpServerConfig] : ids \in IdLists} :
        [i \in 1..Len(l) |-> l[i].id] \in IdLists}

Init ==
    /\ serverConfigs \in ConfigLists
    /\ clients = <<>>
    /\ servers = <<>>
    /\ aggregatedTools = <<>>
    /\ starts = {}
    /\ stop = Absent
    /\ started = FALSE
    /\ session = Absent
    /\ last = NoOp

---------------------------------------------------------------------------
(* ServerPoolManager.startAll and LocalServerClient.connect *)

\* a slip: the filter on the enabled flag is left out
enabledConfigs_All == [i \in 1..Len(serverConfigs) |-> i]

\* serverConfigs.filter(config => config.enabled), as indices in order
enabledConfigs == SelectSeq([i \in 1..Len(serverConfigs) |-> i],
                            LAMBDA i : serverConfigs[i].enabled)

\* a slip: no try/catch around connect()
StartTaskSettles_NoCatch(connectThrew) ==
    IF connectThrew THEN "rejected" ELSE "resolved"

\* how the async callback of startAll settles: its try/catch turns a throw of
\* connect() into a normal return
StartTaskSettles(connectThrew) == "resolved"

UpdateClient(c, r) == [clients EXCEPT ![c] = r]

\* a slip: connect() without the test of _connected
connectBegin_NoGuard(r) ==
    [client |-> [r EXCEPT !.transport = TRUE, !.client = TRUE, !.cpc = "handshake"],
     returned |-> FALSE]

\* connect() on a client with fields r, up to its first await: it returns at
\* once when already connected, and otherwise creates the transport and the
\* client and awaits client.connect(transport)
connectBegin(r) ==
    IF r.connected
    THEN [client |-> r, returned |-> TRUE]
    ELSE [client |-> [r EXCEPT !.transport = TRUE, !.client = TRUE,
                               !.cpc = "handshake"],
          returned |-> FALSE]

\* the guard of refreshCapabilities(): what it throws before any query
refreshCapabilitiesThrows(r) ==
    IF ~r.client \/ ~r.connected THEN Some("ServerConnectionError") ELSE Absent

\* a slip: the cache is emptied when the query fails
refreshCapabilitiesSettles_ClearsOnError(r, listed) ==
    IF listed = Absent
    THEN [client |-> [r EXCEPT !.tools = <<>>], thrown |-> Some("listToolsError")]
    ELSE [client |-> [r EXCEPT !.tools = ValueOf(listed)], thrown |-> Absent]

\* refreshCapabilities() after the await of listTools(): the list the backend
\* answered replaces the cache in one assignment; when the query failed
\* (listed is Absent) its error is thrown again as it is
refreshCapabilitiesSettles(r, listed) ==
    IF listed = Absent
    THEN [client |-> r, thrown |-> Some("listToolsError")]
    ELSE [client |-> [r EXCEPT !.tools = ValueOf(listed)], thrown |-> Absent]

\* startAll up to its await: one client per enabled config, each run up to the
\* await of client.connect(transport) inside connect()
StartAllBegin ==
    LET n == Len(enabledConfigs)
        base == Len(clients)
    IN  /\ base + n <= MaxClients
        /\ clients' = clients \o
              [j \in 1..n |-> connectBegin(NewClient(enabledConfigs[j])).client]
        /\ starts' = starts \cup {(base + 1)..(base + n)}
        /\ last' = NoOp
        /\ UNCHANGED <<serverConfigs, session, servers, aggregatedTools, stop, started>>

\* client.connect(transport) resolves: _connected = true, then
\* refreshCapabilities() runs up to the await of listTools()
ConnectHandshakeOk(c) ==
    /\ clients[c].cpc = "handshake"
    /\ clients' = UpdateClient(c, [clients[c] EXCEPT !.connected = TRUE,
                                                     !.cpc = "listing"])
    /\ last' = NoOp
    /\ UNCHANGED <<serverConfigs, session, servers, aggregatedTools, starts, stop, started>>

\* client.connect(transport) rejects (spawn or handshake): the catch of connect()
ConnectHandshakeFail(c) ==
    /\ clients[c].cpc = "handshake"
    /\ clients' = UpdateClient(c, [clients[c] EXCEPT !.connected = FALSE,
                                                     !.cpc = "threw",
                                                     !.task = StartTaskSettles(TRUE)])
    /\ last' = NoOp
    /\ UNCHANGED <<serverConfigs, session, servers, aggregatedTools, starts, stop, started>>

\* listTools() resolves: the cache is replaced, connect() returns and the
\* callback of startAll stores the client under its id
ListToolsOk(c, tools) ==
    /\ clients[c].cpc = "listing"
    /\ clients' = UpdateClient(c,
           [refreshCapabilitiesSettles(clients[c], Some(tools)).client EXCEPT
               !.cpc = "returned", !.task = StartTaskSettles(FALSE)])
    /\ servers' = MapSet(servers, ClientId(c), c)
    /\ last' = NoOp
    /\ UNCHANGED <<serverConfigs, session, aggregatedTools, starts, stop, started>>

\* listTools() rejects: refreshCapabilities rethrows, the catch of connect()
ListToolsFail(c) ==
    /\ clients[c].cpc = "listing"
    /\ clients' = UpdateClient(c,
           [refreshCapabilitiesSettles(clients[c], Absent).client EXCEPT
               !.connected = FALSE, !.cpc = "threw",
               !.task = StartTaskSettles(TRUE)])
    /\ last' = NoOp
    /\ UNCHANGED <<serverConfigs, session, servers, aggregatedTools, starts, stop, started>>

\* a slip: the snapshot is left after its first insertion
refreshAggregation_Partial(srv) ==
    IF Len(aggregate(srv, clients)) < 2
    THEN aggregate(srv, clients)
    ELSE <<aggregate(srv, clients)[1]>>

\* ServerPoolManager.refreshAggregation
refreshAggregation(srv) == aggregate(srv, clients)

\* Promise.all(startPromises) settles: it rejects as soon as one task rejects,
\* and resolves once all have resolved; then refreshAggregation()
StartAllJoin(T) ==
    /\ T \in starts
    /\ \/ \E c \in T : clients[c].task = "rejected"
       \/ \A c \in T : clients[c].task = "resolved"
    /\ starts' = starts \ {T}
    /\ IF \E c \in T : clients[c].task = "rejected"
       THEN /\ last' = [op |-> "startAll", outcome |-> "raised", tasks |-> T]
            /\ UNCHANGED <<aggregatedTools, started>>
       ELSE /\ aggregatedTools' = refreshAggregation(servers)
            /\ started' = TRUE
            /\ last' = [op |-> "startAll", outcome |-> "returned", tasks |-> T]
    /\ UNCHANGED <<serverConfigs, session, clients, servers, stop>>

---------------------------------------------------------------------------
(* ServerPoolManager.stopAll and LocalServerClient.disconnect *)

\* a slip: disconnect() rethrows what client.close() threw
DisconnectSettles_Rethrow(closeThrew) ==
    IF closeThrew THEN "rejected" ELSE "resolved"

\* how disconnect() settles: its catch swallows a throw of client.close()
DisconnectSettles(closeThrew) == "resolved"

\* stopAll up to its await: disconnect() is called on every value of the Map;
\* it returns at once on a client that is not connected and otherwise runs up
\* to the await of client.close().  (The calls of stopAll are taken not to
\* overlap one another; they overlap startAll and dispatch freely.)
\* overlapped remembers that a startAll was in flight when stopAll was called.
StopAllBegin ==
    /\ stop = Absent
    /\ LET snapshot == {servers[i].v : i \in 1..Len(servers)}
       IN  stop' = Some([snapshot |-> snapshot,
                         pending |-> {c \in snapshot : clients[c].connected},
                         rejected |-> FALSE,
                         closeThrew |-> FALSE,
                         overlapped |-> starts # {}])
    /\ last' = NoOp
    /\ UNCHANGED <<serverConfigs, session, clients, servers, aggregatedTools, starts, started>>

\* a slip: disconnect() forgets the flag
Disconnected_KeepFlag(r) ==
    [r EXCEPT !.client = FALSE, !.transport = FALSE, !.tools = <<>>]

\* a slip: disconnect() clears the flag and nothing else
Disconnected_FlagOnly(r) == [r EXCEPT !.connected = FALSE]

\* a slip: the catch of disconnect() leaves the cached list
Disconnected_KeepTools(r) ==
    [r EXCEPT !.connected = FALSE, !.client = FALSE, !.transport = FALSE]

\* the fields after disconnect(), on both of its paths
Disconnected(r) ==
    [r EXCEPT !.connected = FALSE, !.client = FALSE, !.transport = FALSE,
              !.tools = <<>>]

\* one whole call of disconnect() on a client with fields r: the fields it
\* leaves and how it settles
disconnect(r, closeThrew) ==
    IF ~r.connected
    THEN [client |-> r, settles |-> "resolved"]
    ELSE [client |-> Disconnected(r), settles |-> DisconnectSettles(closeThrew)]

\* client.close() settles inside the disconnect() of client c
DisconnectClose(c, closeThrew) ==
    /\ stop # Absent
    /\ c \in ValueOf(stop).pending
    /\ clients' = UpdateClient(c, Disconnected(clients[c]))
    /\ stop' = Some([ValueOf(stop) EXCEPT
                        !.pending = @ \ {c},
                        !.rejected = @ \/ DisconnectSettles(closeThrew) = "rejected",
                        !.closeThrew = @ \/ closeThrew])
    /\ last' = NoOp
    /\ UNCHANGED <<serverConfigs, session, servers, aggregatedTools, starts, started>>

DisconnectCloseOk(c) == DisconnectClose(c, FALSE)

DisconnectCloseFail(c) == DisconnectClose(c, TRUE)

\* Promise.all(stopPromises) settles; then servers.clear() and refreshAggregation()
StopAllJoin ==
    /\ stop # Absent
    /\ ValueOf(stop).rejected \/ ValueOf(stop).pending = {}
    /\ stop' = Absent
    /\ IF ValueOf(stop).rejected
       THEN /\ last' = [op |-> "stopAll", outcome |-> "raised",
                        snapshot |-> ValueOf(stop).snapshot,
                        closeThrew |-> ValueOf(stop).closeThrew,
                        overlapped |-> ValueOf(stop).overlapped]
            /\ UNCHANGED <<servers, aggregatedTools>>
       ELSE /\ servers' = <<>>
            /\ aggregatedTools' = refreshAggregation(<<>>)
            /\ last' = [op |-> "stopAll", outcome |-> "returned",
                        snapshot |-> ValueOf(stop).snapshot,
                        closeThrew |-> ValueOf(stop).closeThrew,
                        overlapped |-> ValueOf(stop).overlapped]
    /\ UNCHANGED <<serverConfigs, session, clients, starts, started>>

---------------------------------------------------------------------------
(* ServerPoolManager.routeToolCall *)

\* the names a caller may ask for: the names the backends can produce, and one
\* that none can
DispatchNames ==
    {buildNamespacedName(IdA, ToolPing), buildNamespacedName(IdB, ToolPing),
     buildNamespacedName(IdA, ToolBC), ToolNonexistent}

\* the clients after the requests of sent have gone out: each is in flight
\* until the backend answers
Send(sent) ==
    [c \in 1..Len(clients) |->
        IF \E req \in sent : req.client = c
        THEN [clients[c] EXCEPT
                 !.inflight = Append(@, (CHOOSE req \in sent : req.client = c).name)]
        ELSE clients[c]]

\* the clients a request of sent goes to can take one more call in flight
CanSend(sent) == \A req \in sent : Len(clients[req.client].inflight) < MaxInFlight

\* one call of routeToolCall, up to the await of the request it sends to a
\* backend; a call that throws before is over
Dispatch(name, user) ==
    /\ CanSend(routeToolCall(name, user).sent)
    /\ clients' = Send(routeToolCall(name, user).sent)
    /\ last' = [op |-> "dispatch", result |-> routeToolCall(name, user)]
    /\ UNCHANGED <<serverConfigs, session, servers, aggregatedTools, starts, stop,
                   started>>

\* a slip: the calls in flight are answered one backend after the other
CanSettle_Serialized(c) ==
    /\ clients[c].inflight # <<>>
    /\ \A d \in 1..(c - 1) : clients[d].inflight = <<>>

\* a call sent to client c is in flight: its continuation waits for nothing
\* but the answer of that backend
CanSettle(c) == clients[c].inflight # <<>>

\* a sequence without its element at position i
RemoveAt(seq, i) == SubSeq(seq, 1, i - 1) \o SubSeq(seq, i + 1, Len(seq))

\* a slip: the fields of the error are filled from one another
ServerExecutionError_Swapped(serverId, toolName, cause) ==
    [serverId |-> toolName, toolName |-> serverId, cause |-> cause]

\* new ServerExecutionError(serverId, toolName, cause): the details it carries
ServerExecutionError(serverId, toolName, cause) ==
    [serverId |-> serverId, toolName |-> toolName, cause |-> cause]

\* what callTool throws after its await: nothing when the backend answered,
\* otherwise the fault (timeout, protocol error, error answer: the catch
\* treats them alike) wrapped with this.id and the name it was called with
callToolThrows(c, name, answered) ==
    IF answered THEN Absent
    ELSE Some(ServerExecutionError(ClientId(c), name, "fault"))

\* a slip: a call that failed is sent again
CallToolSettles_Retry(c, answered) ==
    /\ CanSettle(c)
    /\ \E i \in 1..Len(clients[c].inflight) :
           /\ clients' = UpdateClient(c, [clients[c] EXCEPT
                             !.inflight = IF answered THEN RemoveAt(@, i) ELSE @])
           /\ last' = [op |-> "callTool", client |-> c, answered |-> answered,
                       name |-> clients[c].inflight[i],
                       outcome |-> routeToolCallSettles(callToolSettles(answered)),
                       error |-> callToolThrows(c, clients[c].inflight[i], answered)]
    /\ UNCHANGED <<serverConfigs, session, servers, aggregatedTools, starts, stop,
                   started>>

\* the backend of client c answers a call in flight, or its channel fails:
\* callTool settles and routeToolCall settles with it
CallToolSettles(c, answered) ==
    /\ CanSettle(c)
    /\ \E i \in 1..Len(clients[c].inflight) :
           /\ clients' = UpdateClient(c, [clients[c] EXCEPT
                             !.inflight = RemoveAt(@, i)])
           /\ last' = [op |-> "callTool", client |-> c, answered |-> answered,
                       name |-> clients[c].inflight[i],
                       outcome |-> routeToolCallSettles(callToolSettles(answered)),
                       error |-> callToolThrows(c, clients[c].inflight[i], answered)]
    /\ UNCHANGED <<serverConfigs, session, servers, aggregatedTools, starts, stop,
                   started>>

\* a slip: status() rebuilds the registry before it reports
Status_Refreshes ==
    /\ aggregatedTools' = aggregate(servers, clients)
    /\ last' = [op |-> "status"]
    /\ UNCHANGED <<serverConfigs, session, clients, servers, starts, stop, started>>

\* one call of getStatus(): a synchronous read
Status ==
    /\ last' = [op |-> "status"]
    /\ UNCHANGED <<serverConfigs, session, clients, servers, aggregatedTools, starts,
                   stop, started>>

---------------------------------------------------------------------------

Clients == 1..Len(clients)

Next ==
    \/ StartAllBegin
    \/ \E c \in Clients : ConnectHandshakeOk(c)
    \/ \E c \in Clients : ConnectHandshakeFail(c)
    \/ \E c \in Clients : \E tools \in BackendTools(ClientId(c)) : ListToolsOk(c, tools)
    \/ \E c \in Clients : ListToolsFail(c)
    \/ \E T \in starts : StartAllJoin(T)
    \/ StopAllBegin
    \/ \E c \in Clients : DisconnectCloseOk(c)
    \/ \E c \in Clients : DisconnectCloseFail(c)
    \/ StopAllJoin
    \/ \E name \in DispatchNames : \E user \in Users : Dispatch(name, user)
    \/ \E c \in Clients : \E answered \in BOOLEAN : CallToolSettles(c, answered)
    \/ Status

Spec == Init /\ [][Next]_vars

\* no startAll() or stopAll() call is in flight
Idle == starts = {} /\ stop = Absent

\* the pool driven by a caller that awaits each startAll() and stopAll() before
\* the next one; dispatches still arrive at any time
NextSeq ==
    \/ Idle /\ StartAllBegin
    \/ \E c \in Clients : ConnectHandshakeOk(c)
    \/ \E c \in Clients : ConnectHandshakeFail(c)
    \/ \E c \in Clients : \E tools \in BackendTools(ClientId(c)) : ListToolsOk(c, tools)
    \/ \E c \in Clients : ListToolsFail(c)
    \/ \E T \in starts : StartAllJoin(T)
    \/ Idle /\ StopAllBegin
    \/ \E c \in Clients : DisconnectCloseOk(c)
    \/ \E c \in Clients : DisconnectCloseFail(c)
    \/ StopAllJoin
    \/ \E name \in DispatchNames : \E user \in Users : Dispatch(name, user)
    \/ \E c \in Clients : \E answered \in BOOLEAN : CallToolSettles(c, answered)
    \/ Status

SpecSeq == Init /\ [][NextSeq]_vars

\* the backend of client c answers a call in flight
BackendAnswers(c) ==
    /\ c \in Clients
    /\ \E answered \in BOOLEAN : CallToolSettles(c, answered)

\* the sequential pool where the backend of the first client may never answer,
\* while every other backend answers each call in the end and the event loop
\* runs the continuation
SpecIsolation ==
    /\ Init
    /\ [][NextSeq]_vars
    /\ \A c \in 2..MaxClients : WF_vars(BackendAnswers(c))

\* the sequential pool where a connect() may never settle, while the event
\* loop runs the continuation of Promise.all as soon as it has settled
SpecHang ==
    /\ Init
    /\ [][NextSeq]_vars
    /\ WF_vars(\E T \in starts : StartAllJoin(T))

---------------------------------------------------------------------------
(* src/src/server/transport.ts and gateway.ts: the /mcp endpoint *)

\* the callers that pass requireBearerAuth: a token always carries scopes
AuthenticatedUsers == Users \ {NoUser}

\* the user argument of gatewayFactory.createServer() in the POST /mcp handler
\* of a request authenticated as caller: the handler passes none
CreateServerUser(caller) == NoUser

\* createGatewayServer(poolManager, user): one handler per tool of
\* getToolsForUser(user), each closing over user
createGatewayServer(user) ==
    [user |-> user,
     tools |-> [i \in 1..Len(getToolsForUser(user)) |-> getToolsForUser(user)[i].name]]

\* POST /mcp with an initialize request and no session id
McpInitialize(caller) ==
    /\ session = Absent
    /\ session' = Some([caller |-> caller,
                        server |-> createGatewayServer(CreateServerUser(caller))])
    /\ last' = NoOp
    /\ UNCHANGED <<serverConfigs, clients, servers, aggregatedTools, starts, stop,
                   started>>

\* POST /mcp on the session with tools/call of a registered tool, by the caller
\* that opened the session: the handler the server registered for it
McpCallTool(name) ==
    /\ session # Absent
    /\ name \in Range(ValueOf(session).server.tools)
    /\ CanSend(routeToolCall(name, ValueOf(session).server.user).sent)
    /\ clients' = Send(routeToolCall(name, ValueOf(session).server.user).sent)
    /\ last' = [op |-> "mcpCall", caller |-> ValueOf(session).caller,
                result |-> routeToolCall(name, ValueOf(session).server.user)]
    /\ UNCHANGED <<serverConfigs, session, servers, aggregatedTools, starts,
                   stop, started>>

\* DELETE /mcp: the session is closed and its transport removed
McpDelete ==
    /\ session # Absent
    /\ session' = Absent
    /\ last' = NoOp
    /\ UNCHANGED <<serverConfigs, clients, servers, aggregatedTools, starts, stop,
                   started>>

\* the sequential pool behind the HTTP endpoint
NextHttp ==
    \/ Idle /\ StartAllBegin
    \/ \E c \in Clients : ConnectHandshakeOk(c)
    \/ \E c \in Clients : ConnectHandshakeFail(c)
    \/ \E c \in Clients : \E tools \in BackendTools(ClientId(c)) : ListToolsOk(c, tools)
    \/ \E c \in Clients : ListToolsFail(c)
    \/ \E T \in starts : StartAllJoin(T)
    \/ Idle /\ StopAllBegin
    \/ \E c \in Clients : DisconnectCloseOk(c)
    \/ \E c \in Clients : DisconnectCloseFail(c)
    \/ StopAllJoin
    \/ \E caller \in AuthenticatedUsers : McpInitialize(caller)
    \/ \E name \in DispatchNames : McpCallTool(name)
    \/ \E c \in Clients : \E answered \in BOOLEAN : CallToolSettles(c, answered)
    \/ McpDelete

SpecHttp == Init /\ [][NextHttp]_vars

---------------------------------------------------------------------------
(* What the properties below are stated with *)

\* the namespaced names of the registry snapshot
RegistryNames == {aggregatedTools[i].k : i \in 1..Len(aggregatedTools)}

\* the entries of the registry snapshot
RegistryEntries == {aggregatedTools[i].v : i \in 1..Len(aggregatedTools)}

\* the clients the PoolManager holds, and those it holds under one id
Held == {servers[i].v : i \in 1..Len(servers)}
HeldUnder(id) == {servers[i].v : i \in {j \in 1..Len(servers) : servers[j].k = id}}

\* the scopes a client's definition requires and the scopes a caller is granted
RequiredScopeSet(c) ==
    UNION {Range(r) : r \in serverConfigs[clients[c].cfg].requiredScopes}
GrantedScopeSet(user) == UNION {Range(u.scopes) : u \in user}

\* the caller may use the backend that owns the entry
Authorized(e, user) ==
    user = NoUser \/
    \E c \in HeldUnder(e.serverId) : RequiredScopeSet(c) \subseteq GrantedScopeSet(user)

\* the ids of the definitions are distinct and free of the separator (spec 3, 4.2)
WellFormedDefinitions ==
    /\ \A i, j \in 1..Len(serverConfigs) :
           serverConfigs[i].id = serverConfigs[j].id => i = j
    /\ \A i \in 1..Len(serverConfigs) :
           NAMESPACE_SEPARATOR \notin Range(serverConfigs[i].id)

\* every cached tool of client c is in the registry under c's id
ToolsInRegistry(c) ==
    \A i \in 1..Len(clients[c].tools) :
        [name |-> buildNamespacedName(ClientId(c), clients[c].tools[i]),
         serverId |-> ClientId(c),
         originalName |-> clients[c].tools[i]] \in RegistryEntries

---------------------------------------------------------------------------
(* C1 *)

\* C1: a dispatch by a caller whose granted scopes do not include every scope
\* required by the backend owning the resolved capability fails with
\* AuthorizationError and sends no request to any backend.
C1_InsufficientScopesRejected ==
    \A name \in DispatchNames : \A user \in Users \ {NoUser} :
        \A e \in RegistryEntries :
            (e.name = name /\ ~Authorized(e, user))
            => routeToolCall(name, user) =
                   [outcome |-> "AuthorizationError", sent |-> {}]

\* a dispatch has just been refused for its scopes
C1_Witness ==
    /\ last.op = "dispatch"
    /\ last.result.outcome = "AuthorizationError"

---------------------------------------------------------------------------
(* C2 *)

\* C2: startAll returns without raising whichever connects fail; when the
\* definitions are well formed, every backend of the call whose connect()
\* succeeded is connected, is held in the pool under its id, and has its
\* capabilities in the registry when startAll returns.
C2_StartAllPartialFailure ==
    last.op = "startAll" =>
        /\ last.outcome = "returned"
        /\ WellFormedDefinitions =>
              \A c \in last.tasks :
                  clients[c].cpc = "returned" =>
                      /\ clients[c].connected
                      /\ HeldUnder(ClientId(c)) = {c}
                      /\ ToolsInRegistry(c)

\* startAll has returned after one connect failed and another succeeded
C2_Witness ==
    /\ last.op = "startAll"
    /\ WellFormedDefinitions
    /\ \E c \in last.tasks : clients[c].cpc = "threw"
    /\ \E c \in last.tasks : clients[c].cpc = "returned" /\ clients[c].tools # <<>>

---------------------------------------------------------------------------
(* C3 *)

\* the request an authorized dispatch of entry e sends
OwnerRequests(e) ==
    {[client |-> c, name |-> e.originalName] : c \in HeldUnder(e.serverId)}

\* backends a and b are both held, connected and offer ping, and the registry
\* has just been rebuilt by startAll
TwoPingBackends ==
    /\ last.op = "startAll"
    /\ {servers[i].k : i \in 1..Len(servers)} = {IdA, IdB}
    /\ \A c \in Held : clients[c].connected /\ clients[c].tools = <<ToolPing>>

\* C3: an authorized dispatch of a name of the registry sends nothing but one
\* request to the backend recorded as owner of the entry, with the entry's
\* original name, and sends it when that backend is connected; with a and b
\* both offering ping the catalog is exactly a_ping and b_ping and a dispatch
\* of a_ping reaches only a.
C3_RoutesToOwner ==
    /\ \A name \in DispatchNames : \A user \in Users : \A e \in RegistryEntries :
           (e.name = name /\ Authorized(e, user)) =>
               LET r == routeToolCall(name, user)
               IN  /\ r.sent \subseteq OwnerRequests(e)
                   /\ Cardinality(r.sent) <= 1
                   /\ (\A c \in HeldUnder(e.serverId) : clients[c].connected)
                          => (r.outcome = "forwarded" /\ r.sent = OwnerRequests(e))
    /\ TwoPingBackends =>
           /\ RegistryNames = {buildNamespacedName(IdA, ToolPing),
                               buildNamespacedName(IdB, ToolPing)}
           /\ Len(getToolsForUser(NoUser)) = 2
           /\ routeToolCall(buildNamespacedName(IdA, ToolPing), NoUser).sent =
                  {[client |-> c, name |-> ToolPing] : c \in HeldUnder(IdA)}

\* a dispatch has just been forwarded while a and b both offer ping
C3_Witness ==
    /\ last.op = "dispatch"
    /\ last.result.outcome = "forwarded"
    /\ {servers[i].k : i \in 1..Len(servers)} = {IdA, IdB}
    /\ \A c \in Held : clients[c].connected /\ clients[c].tools = <<ToolPing>>
    /\ Len(aggregatedTools) = 2
    /\ \E c \in HeldUnder(IdA) : last.result.sent = {[client |-> c, name |-> ToolPing]}

---------------------------------------------------------------------------
(* C4 *)

\* C4: a dispatch of a name that is not in the registry snapshot fails with
\* ToolNotFoundError and sends no request, with or without a caller identity.
C4_UnknownNameNotFound ==
    \A name \in DispatchNames : \A user \in Users :
        name \notin RegistryNames
        => routeToolCall(name, user) =
               [outcome |-> "ToolNotFoundError", sent |-> {}]

\* a dispatch has just failed as not found while the registry holds other names
C4_Witness ==
    /\ last.op = "dispatch"
    /\ last.result.outcome = "ToolNotFoundError"
    /\ RegistryNames # {}

---------------------------------------------------------------------------
(* C5 *)

\* C5: getToolsForUser returns the whole snapshot without a caller, and with a
\* caller exactly the entries whose owning backend requires only scopes the
\* caller is granted; a backend that requires none is visible to every caller.
C5_CatalogIsScopeFilter ==
    \A user \in Users :
        /\ getToolsForUser(user) =
               SelectSeq(MapValues(aggregatedTools), LAMBDA e : Authorized(e, user))
        /\ user = NoUser => getToolsForUser(user) = MapValues(aggregatedTools)
        /\ \A e \in RegistryEntries :
               (\E c \in HeldUnder(e.serverId) : RequiredScopeSet(c) = {})
               => e \in Range(getToolsForUser(user))

\* some caller sees a part of the catalog and not all of it, and a caller
\* without scopes sees some of it
C5_Witness ==
    /\ \E user \in Users :
           /\ Len(getToolsForUser(user)) > 0
           /\ Len(getToolsForUser(user)) < Len(aggregatedTools)
    /\ Len(getToolsForUser(Some([scopes |-> <<>>]))) > 0

---------------------------------------------------------------------------
(* C6 *)

\* C6: the gateway server of a session opened by an authenticated caller is
\* built for that caller's identity, offers only tools of backends whose
\* required scopes the caller is granted, and forwards a call only to such a
\* backend.
C6_SessionScopedToCaller ==
    /\ \A ses \in session :
           /\ ses.server.user = ses.caller
           /\ \A e \in RegistryEntries :
                  e.name \in Range(ses.server.tools) => Authorized(e, ses.caller)
    /\ last.op = "mcpCall" =>
           \A req \in last.result.sent :
               RequiredScopeSet(req.client) \subseteq GrantedScopeSet(last.caller)

---------------------------------------------------------------------------
(* C7 *)

\* C7: in every reachable state the registry snapshot equals the rebuild of the
\* connections that are connected now with their cached capability lists.
C7_RegistryIsRebuild ==
    aggregatedTools = aggregate(servers, clients)

---------------------------------------------------------------------------
(* C8 *)

\* C8: stopAll returns without raising even when a disconnect errors; when it
\* returns every connection that was in the pool is disconnected, the
\* connection set is empty and the registry snapshot is empty.
C8_StopAllUnconditional ==
    last.op = "stopAll" =>
        /\ last.outcome = "returned"
        /\ \A c \in last.snapshot : ~clients[c].connected
        /\ servers = <<>>
        /\ aggregatedTools = <<>>

\* stopAll has returned after the close of one of its connections threw
C8_Witness ==
    /\ last.op = "stopAll"
    /\ last.closeThrew
    /\ last.snapshot # {}

---------------------------------------------------------------------------
(* C9 *)

\* the LocalServerClient objects of definition i that are in use: held by the
\* pool, connected, or inside connect()
InUse(i) ==
    {c \in Clients :
        /\ clients[c].cfg = i
        /\ \/ c \in Held
           \/ clients[c].connected
           \/ clients[c].cpc \in {"handshake", "listing"}}

\* C9: once the pool has been started, exactly one connection exists per
\* enabled definition and it is the one the PoolManager holds.
C9_OneConnectionPerEnabled ==
    started =>
        \A i \in 1..Len(serverConfigs) :
            serverConfigs[i].enabled =>
                /\ Cardinality(InUse(i)) = 1
                /\ InUse(i) = HeldUnder(serverConfigs[i].id)

---------------------------------------------------------------------------
(* C10 *)

\* C10 as claimed: after startAll the length of status() is the number of
\* enabled definitions.
C10_StatusLengthIsEnabled ==
    last.op = "startAll" => Len(getStatus) = Len(enabledConfigs)

\* C10 as amended: after startAll status() has one entry per definition,
\* enabled or not, in the order of the definitions; its length is the number
\* of enabled definitions exactly when none is disabled.
C10_StatusLengthIsAll ==
    last.op = "startAll" =>
        /\ Len(getStatus) = Len(serverConfigs)
        /\ \A i \in 1..Len(serverConfigs) : getStatus[i].id = serverConfigs[i].id
        /\ (Len(getStatus) = Len(enabledConfigs))
               <=> (\A i \in 1..Len(serverConfigs) : serverConfigs[i].enabled)

\* startAll has returned for a list with an enabled and a disabled definition
C10_Witness ==
    /\ last.op = "startAll"
    /\ \E i \in 1..Len(serverConfigs) : serverConfigs[i].enabled
    /\ \E i \in 1..Len(serverConfigs) : ~serverConfigs[i].enabled

---------------------------------------------------------------------------
(* C11 *)

\* the ids of the definitions are pairwise distinct (spec 3)
DistinctIds ==
    \A i, j \in 1..Len(serverConfigs) :
        serverConfigs[i].id = serverConfigs[j].id => i = j

\* the number of entries of the catalog without a caller that backend id owns
OwnedCount(id) ==
    Cardinality({i \in 1..Len(getToolsForUser(NoUser)) :
                    getToolsForUser(NoUser)[i].serverId = id})

\* C11: after startAll, every status entry with connected = true reports a
\* capability count that is nonnegative and equals the number of entries the
\* backend owns in the catalog without a caller.
C11_CountMatchesCatalog ==
    last.op = "startAll" =>
        \A i \in 1..Len(getStatus) :
            getStatus[i].connected =>
                /\ getStatus[i].toolCount >= 0
                /\ getStatus[i].toolCount = OwnedCount(getStatus[i].id)

---------------------------------------------------------------------------
(* C12 *)

\* every connect() attempted so far for the definition of client c has thrown
EveryConnectThrew(c) ==
    \A d \in Clients : clients[d].cfg = clients[c].cfg => clients[d].cpc = "threw"

\* C12: in every state a status entry carries an error string exactly when
\* its connected flag is false; after startAll, with distinct ids, a backend
\* of the call whose connect attempts all failed is reported with
\* connected = false and an error string.
C12_FailedReportedDisconnected ==
    /\ \A i \in 1..Len(getStatus) :
           (getStatus[i].error # Absent) <=> ~getStatus[i].connected
    /\ (last.op = "startAll" /\ DistinctIds) =>
           \A c \in last.tasks :
               (clients[c].cpc = "threw" /\ EveryConnectThrew(c)) =>
                   /\ ~getStatus[clients[c].cfg].connected
                   /\ getStatus[clients[c].cfg].error # Absent

\* startAll has returned after one backend failed to connect and another
\* connected, and status() tells them apart
C12_Witness ==
    /\ last.op = "startAll"
    /\ DistinctIds
    /\ \E c \in last.tasks :
           /\ clients[c].cpc = "threw"
           /\ EveryConnectThrew(c)
           /\ getStatus[clients[c].cfg].error = Some("Not connected")
    /\ \E i \in 1..Len(getStatus) :
           getStatus[i].connected /\ getStatus[i].error = Absent

---------------------------------------------------------------------------
(* C13 *)

\* the registry has just been rebuilt: startAll or stopAll has returned
Rebuilt ==
    /\ last.op \in {"startAll", "stopAll"}
    /\ last.outcome = "returned"

\* the sum of the cached capability counts of the connected clients in the pool
RECURSIVE CachedSum(_)
CachedSum(i) ==
    IF i > Len(servers) THEN 0
    ELSE (IF clients[servers[i].v].connected
          THEN Len(clients[servers[i].v].tools) ELSE 0) + CachedSum(i + 1)

\* the distinct namespaced names of list()
ListedNames == {AggregatorGetTools[i].name : i \in 1..Len(AggregatorGetTools)}

\* the positions (entry of the pool, index in its cached list) the rebuild visits
Offered ==
    UNION {{<<i, j>> : j \in 1..Len(clients[servers[i].v].tools)} :
              i \in {k \in 1..Len(servers) : clients[servers[k].v].connected}}

NameAt(pos) ==
    buildNamespacedName(servers[pos[1]].k, clients[servers[pos[1]].v].tools[pos[2]])

\* no two offered capabilities get the same namespaced name
NoCollision == \A p, q \in Offered : NameAt(p) = NameAt(q) => p = q

\* C13 as claimed: after a rebuild the number of distinct names of list() is at
\* most the sum of the cached counts of the connected backends, and equals it
\* whenever no two backends have the same id.
C13_CountEqualsSumIfDistinctIds ==
    Rebuilt =>
        /\ Cardinality(ListedNames) <= CachedSum(1)
        /\ DistinctIds => Cardinality(ListedNames) = CachedSum(1)

\* C13 as amended: after a rebuild list() holds no name twice, the number of
\* its names is at most the sum of the cached counts of the connected backends,
\* and equals it exactly when no two offered capabilities get the same
\* namespaced name.
C13_CountEqualsSumIffNoCollision ==
    Rebuilt =>
        /\ Len(AggregatorGetTools) = Cardinality(ListedNames)
        /\ Cardinality(ListedNames) <= CachedSum(1)
        /\ (Cardinality(ListedNames) = CachedSum(1)) <=> NoCollision

\* a rebuild has just dropped a name although the ids are distinct
C13_Witness ==
    /\ Rebuilt
    /\ DistinctIds
    /\ Cardinality(ListedNames) < CachedSum(1)
    /\ Cardinality(ListedNames) > 0

---------------------------------------------------------------------------
(* C14 *)

SeparatorFree(str) == NAMESPACE_SEPARATOR \notin Range(str)

\* C14: after a rebuild, for every connected backend of the pool with id b and
\* every capability name c of its cached list, neither containing the
\* separator, resolving buildNamespacedName(b, c) gives exactly (b, c).
C14_RoundTrip ==
    Rebuilt =>
        \A cl \in Held :
            clients[cl].connected =>
                \A j \in 1..Len(clients[cl].tools) :
                    (SeparatorFree(ClientId(cl)) /\ SeparatorFree(clients[cl].tools[j]))
                    => resolveToolCall(
                           buildNamespacedName(ClientId(cl), clients[cl].tools[j])) =
                       [error |-> "none", serverId |-> ClientId(cl),
                        toolName |-> clients[cl].tools[j]]

\* a rebuild has just registered a separator-free name of a separator-free id
\* next to another entry
C14_Witness ==
    /\ Rebuilt
    /\ Len(aggregatedTools) >= 2
    /\ \E cl \in Held :
           /\ clients[cl].connected
           /\ SeparatorFree(ClientId(cl))
           /\ \E j \in 1..Len(clients[cl].tools) : SeparatorFree(clients[cl].tools[j])

---------------------------------------------------------------------------
(* C15 *)

\* C15: from every state of a connection, two calls of disconnect() in a row
\* both return without raising, the connection is not connected after each,
\* and the second call changes nothing.
C15_DisconnectIdempotent ==
    \A c \in Clients : \A t1, t2 \in BOOLEAN :
        LET first == disconnect(clients[c], t1)
            second == disconnect(first.client, t2)
        IN  /\ first.settles = "resolved"
            /\ second.settles = "resolved"
            /\ ~first.client.connected
            /\ ~second.client.connected
            /\ second.client = first.client

\* stopAll has disconnected one connection while another is still connected
C15_Witness ==
    /\ stop # Absent
    /\ \E c \in Clients : clients[c].connected /\ clients[c].cpc = "returned"
    /\ \E d \in ValueOf(stop).snapshot :
           ~clients[d].connected /\ ~clients[d].client /\ clients[d].cpc = "returned"

---------------------------------------------------------------------------
(* C16 *)

\* C16: a connection whose connect() has failed is fully torn down: it is not
\* connected and retains neither the client nor the transport of the attempt.
C16_FailedConnectTornDown ==
    \A c \in Clients :
        clients[c].cpc = "threw" =>
            /\ ~clients[c].connected
            /\ ~clients[c].client
            /\ ~clients[c].transport

---------------------------------------------------------------------------
(* C17 *)

\* what routeToolCall does for a registered name and an authorized caller is
\* what callTool of the client held under the owner's id does
RouteIsCallTool ==
    \A name \in DispatchNames : \A user \in Users : \A e \in RegistryEntries :
        (e.name = name /\ Authorized(e, user)) =>
            \E c \in HeldUnder(e.serverId) :
                routeToolCall(name, user) = callTool(c, e.originalName)

\* C17: a dispatch that passes resolution and the scope check does what the
\* callTool of the owning connection does; when the call settles, the caller
\* gets the result or the failure of callTool as it is, and nothing is sent
\* again.
C17_OutcomeIsInvokeOutcome ==
    /\ [](RouteIsCallTool /\
          (last.op = "callTool" => last.outcome = callToolSettles(last.answered)))
    /\ [][last'.op = "callTool" =>
              \A c \in Clients :
                  Len(clients'[c].inflight) <= Len(clients[c].inflight)]_vars

\* a forwarded call has just failed in the backend
C17_Witness ==
    /\ last.op = "callTool"
    /\ ~last.answered
    /\ last.outcome = "ServerExecutionError"

---------------------------------------------------------------------------
(* C18 *)

\* C18: every connection ever created belongs to an enabled definition, and
\* every entry of the registry is owned by the id of an enabled definition for
\* which a connection was created.
C18_OnlyEnabledConnected ==
    /\ \A c \in Clients : serverConfigs[clients[c].cfg].enabled
    /\ \A e \in RegistryEntries :
           \E c \in Clients :
               /\ ClientId(c) = e.serverId
               /\ serverConfigs[clients[c].cfg].enabled

\* startAll has returned with a backend connected and registered while another
\* definition is disabled
C18_Witness ==
    /\ last.op = "startAll"
    /\ \E i \in 1..Len(serverConfigs) : ~serverConfigs[i].enabled
    /\ \E c \in Held : clients[c].connected
    /\ Len(aggregatedTools) > 0

---------------------------------------------------------------------------
(* C19 *)

\* the number of calls in flight at client c, if it exists
InFlight(c) == IF c \in Clients THEN Len(clients[c].inflight) ELSE 0

\* C19: while a call sent to the first backend is in flight and never answered,
\* a call in flight at any other backend still completes: the caller gets the
\* result or the failure of that backend.
C19_OtherBackendCompletes ==
    \A c \in 2..MaxClients :
        (InFlight(1) > 0 /\ InFlight(c) > 0)
            ~> (last.op = "callTool" /\ last.client = c /\
                last.outcome \in {"result", "ServerExecutionError"})

\* a call to another backend has just completed while the call to the first
\* backend is still in flight
C19_Witness ==
    /\ last.op = "callTool"
    /\ last.client # 1
    /\ clients[1].inflight # <<>>
    /\ clients[1].connected
    /\ ClientId(1) # ClientId(last.client)

---------------------------------------------------------------------------
(* C20 *)

\* C20: a call of status() leaves the definitions, the connections with their
\* state and cached lists, the pool, the registry snapshot and the calls in
\* flight as they are.
C20_StatusChangesNothing ==
    [][last'.op = "status" =>
          UNCHANGED <<serverConfigs, clients, servers, aggregatedTools, starts, stop,
                      started, session>>]_vars

\* status() has just been called while a startAll, a stopAll and a dispatch
\* are in flight
C20_Witness ==
    /\ last.op = "status"
    /\ starts # {}
    /\ stop # Absent
    /\ \E c \in Clients : clients[c].inflight # <<>>

---------------------------------------------------------------------------
(* C21 *)

\* the names callTool is called with
ToolNames == {ToolPing, ToolC, ToolBC}

\* C21: callTool on a connection that is not connected throws
\* ServerConnectionError and sends nothing; on a connected connection it sends
\* the request once; when the backend answers the caller gets the result, and
\* when the call fails it gets a ServerExecutionError with the id of the
\* backend, the name callTool was called with and the cause.
C21_CallToolOutcomes ==
    /\ \A c \in Clients : \A name \in ToolNames :
           IF clients[c].connected /\ clients[c].client
           THEN callTool(c, name) =
                    [outcome |-> "forwarded", sent |-> {[client |-> c, name |-> name]}]
           ELSE callTool(c, name) =
                    [outcome |-> "ServerConnectionError", sent |-> {}]
    /\ last.op = "callTool" =>
           IF last.answered
           THEN last.outcome = "result" /\ last.error = Absent
           ELSE /\ last.outcome = "ServerExecutionError"
                /\ last.error = Some([serverId |-> ClientId(last.client),
                                      toolName |-> last.name,
                                      cause |-> "fault"])

\* a call of a name that holds the separator has just failed in its backend
C21_Witness ==
    /\ last.op = "callTool"
    /\ ~last.answered
    /\ last.name = ToolBC
    /\ last.error # Absent

---------------------------------------------------------------------------
(* C22 *)

\* C22: a dispatch sends at most one request, to one backend; no other step
\* sends a request, and when a call settles, with a result or with a failure,
\* its request is gone and is not sent again.
C22_AtMostOnce ==
    /\ [](\A name \in DispatchNames : \A user \in Users :
              Cardinality(routeToolCall(name, user).sent) <= 1)
    /\ [][\A c \in Clients :
              /\ last'.op \in {"dispatch", "mcpCall"} =>
                     Len(clients'[c].inflight) =
                         Len(clients[c].inflight) +
                         Cardinality({req \in last'.result.sent : req.client = c})
              /\ last'.op = "callTool" =>
                     Len(clients'[c].inflight) =
                         Len(clients[c].inflight) - (IF last'.client = c THEN 1 ELSE 0)
              /\ last'.op \notin {"dispatch", "mcpCall", "callTool"} =>
                     clients'[c].inflight = clients[c].inflight]_vars

\* a call has failed and is not in flight again although its backend is still
\* connected
C22_Witness ==
    /\ last.op = "callTool"
    /\ ~last.answered
    /\ clients[last.client].connected
    /\ clients[last.client].inflight = <<>>

---------------------------------------------------------------------------
(* C23 *)

\* C23: refreshCapabilities() throws ServerConnectionError on a connection
\* that is not connected; on a connected one the list the backend answers
\* replaces the cached list and nothing else changes; when the query fails the
\* error of the query is thrown as it is and every field, the cached list and
\* the connected flag included, stays as it was.
C23_RefreshCapabilities ==
    \A c \in Clients :
        LET r == clients[c]
        IN  IF ~r.client \/ ~r.connected
            THEN refreshCapabilitiesThrows(r) = Some("ServerConnectionError")
            ELSE /\ refreshCapabilitiesThrows(r) = Absent
                 /\ \A tools \in BackendTools(ClientId(c)) :
                        refreshCapabilitiesSettles(r, Some(tools)) =
                            [client |-> [r EXCEPT !.tools = tools], thrown |-> Absent]
                 /\ refreshCapabilitiesSettles(r, Absent).client = r
                 /\ refreshCapabilitiesSettles(r, Absent).thrown
                        \notin {Absent, Some("ServerConnectionError")}

\* a connected connection holds a list that a new query could replace by
\* another one
C23_Witness ==
    \E c \in Clients :
        /\ clients[c].connected
        /\ clients[c].client
        /\ clients[c].tools # <<>>
        /\ \E tools \in BackendTools(ClientId(c)) : tools # clients[c].tools

---------------------------------------------------------------------------
(* C24 *)

\* C24: connect() on a connection that is connected returns at once and
\* leaves every field of the connection as it is: no transport and no client
\* is created.
C24_ConnectWhenConnected ==
    \A c \in Clients :
        clients[c].connected =>
            connectBegin(clients[c]) = [client |-> clients[c], returned |-> TRUE]

\* a connection has completed connect() and holds a channel and a list
C24_Witness ==
    \E c \in Clients :
        /\ clients[c].connected
        /\ clients[c].cpc = "returned"
        /\ clients[c].transport
        /\ clients[c].tools # <<>>

---------------------------------------------------------------------------
(* C25 *)

\* C25: when close() throws inside disconnect(), disconnect() still returns:
\* the connection is not connected, its client and transport are released and
\* its cached list is empty; no disconnect() of a stopAll ever rejects.
C25_DisconnectSurvivesCloseError ==
    /\ \A c \in Clients :
           clients[c].connected =>
               disconnect(clients[c], TRUE) =
                   [client |-> [clients[c] EXCEPT !.connected = FALSE,
                                                  !.client = FALSE,
                                                  !.transport = FALSE,
                                                  !.tools = <<>>],
                    settles |-> "resolved"]
    /\ \A st \in stop :
           /\ ~st.rejected
           /\ \A d \in st.snapshot \ st.pending :
                  /\ ~clients[d].connected
                  /\ ~clients[d].client
                  /\ ~clients[d].transport
                  /\ clients[d].tools = <<>>

\* inside a stopAll, the close() of a connection has thrown and every
\* disconnect() has returned
C25_Witness ==
    /\ stop # Absent
    /\ ValueOf(stop).closeThrew
    /\ ValueOf(stop).snapshot # {}
    /\ ValueOf(stop).pending = {}

---------------------------------------------------------------------------
(* C26 *)

\* C26: a connection is connected only once its connect() has completed the
\* handshake and the first capability fetch, and a connection whose connect()
\* failed is not connected.
C26_ConnectedOnlyAfterFetch ==
    \A c \in Clients :
        /\ clients[c].connected => clients[c].cpc = "returned"
        /\ clients[c].cpc = "threw" => ~clients[c].connected

---------------------------------------------------------------------------
(* C27 *)

\* some connect() started by a startAll has not settled yet
ConnectPending == \E c \in Clients : clients[c].cpc \in {"handshake", "listing"}

\* C27: while a startAll is in flight the snapshot changes only by the rebuild
\* of that startAll, after every connect attempt has settled; startAll begins
\* only on an empty pool with no startAll or stopAll in flight, and stopAll
\* begins only when no startAll is in flight.
C27_RebuildAfterSettleInOrder ==
    [][/\ (starts # {} /\ aggregatedTools' # aggregatedTools) =>
              (last'.op = "startAll" /\ ~ConnectPending')
       /\ (starts' # starts /\ starts' # {} /\ ~(starts' \subseteq starts)) =>
              (starts = {} /\ stop = Absent /\ servers = <<>>)
       /\ (stop = Absent /\ stop' # Absent) => starts = {}]_vars

---------------------------------------------------------------------------
(* C28 *)

\* the entry the rebuild makes of the capability at a position
EntryAt(pos) ==
    [name |-> NameAt(pos), serverId |-> servers[pos[1]].k,
     originalName |-> clients[servers[pos[1]].v].tools[pos[2]]]

\* C28: after a rebuild every entry of the snapshot is made of a cached
\* capability of a connection of the pool that is connected (nothing of the
\* previous snapshot and nothing of a connection that is not connected stays),
\* every such capability has its namespaced name in the snapshot, and when no
\* two of them share a name each has its own entry.
C28_RebuildFromConnected ==
    Rebuilt =>
        /\ \A e \in RegistryEntries : \E p \in Offered : e = EntryAt(p)
        /\ \A p \in Offered : NameAt(p) \in RegistryNames
        /\ NoCollision =>
               /\ \A p \in Offered : EntryAt(p) \in RegistryEntries
               /\ Len(aggregatedTools) = Cardinality(Offered)

\* startAll has just rebuilt the registry over a pool that holds a connection
\* that is not connected and a connected one that offers capabilities
C28_Witness ==
    /\ last.op = "startAll"
    /\ \E c \in Held : ~clients[c].connected
    /\ \E c \in Held : clients[c].connected /\ clients[c].tools # <<>>
    /\ aggregatedTools # <<>>

---------------------------------------------------------------------------
(* C29 *)

\* position q comes after position p in the iteration of the rebuild
Later(q, p) == q[1] > p[1] \/ (q[1] = p[1] /\ q[2] > p[2])

\* C29: after a rebuild, which never raises, each namespaced name resolves to
\* the owner and the original name of the capability that was inserted last
\* under it in the iteration order.
C29_LastWriteWins ==
    Rebuilt =>
        \A q \in Offered :
            (\A r \in Offered : NameAt(r) = NameAt(q) => ~Later(r, q)) =>
                resolveToolCall(NameAt(q)) =
                    [error |-> "none", serverId |-> servers[q[1]].k,
                     toolName |-> clients[servers[q[1]].v].tools[q[2]]]

\* a rebuild has just met the same namespaced name from two backends
C29_Witness ==
    /\ Rebuilt
    /\ \E p, q \in Offered : p[1] # q[1] /\ NameAt(p) = NameAt(q)

---------------------------------------------------------------------------
(* C30 *)

\* C30: every change of the snapshot is one step to the complete rebuild of
\* the pool of that moment, and a reader gets the whole snapshot of the state
\* it runs in.
C30_SnapshotAtomic ==
    /\ [](getToolsForUser(NoUser) = MapValues(aggregatedTools))
    /\ [][aggregatedTools' # aggregatedTools =>
              aggregatedTools' = aggregate(servers', clients')]_vars

\* a dispatch has just been routed by the previous snapshot while a startAll
\* that will replace it is in flight
C30_Witness ==
    /\ last.op = "dispatch"
    /\ last.result.outcome = "forwarded"
    /\ starts # {}
    /\ aggregatedTools # <<>>
    /\ aggregatedTools # aggregate(servers, clients)

---------------------------------------------------------------------------
(* C31 *)

\* C31: with definitions of distinct ids, when no startAll and no stopAll is in
\* flight, even after startAll was called twice with no stopAll between, every
\* connection that is connected is stored in the connection map under its id.
C31_ConnectedIsHeld ==
    (Idle /\ WellFormedDefinitions)
    => \A c \in Clients :
           clients[c].connected => c \in HeldUnder(ClientId(c))

---------------------------------------------------------------------------
(* C32 *)

\* exactly one startAll has been called: it constructs one client for every
\* enabled definition
OneStartAll == clients # <<>> /\ Len(clients) = Len(enabledConfigs)

\* C32: a stopAll called while the connect attempts of the only startAll were
\* in flight has returned, and the startAll has completed too: no connection is
\* connected, the connection map is empty and the snapshot is empty.
C32_OverlapEndsEmpty ==
    (/\ last.op = "stopAll"
     /\ last.overlapped
     /\ last.outcome = "returned"
     /\ OneStartAll
     /\ starts = {})
    => /\ \A c \in Clients : ~clients[c].connected
       /\ servers = <<>>
       /\ aggregatedTools = <<>>

---------------------------------------------------------------------------
(* C33 *)

\* connect() of client c has returned and the client is connected
ConnectSucceeded(c) ==
    c \in Clients /\ clients[c].cpc = "returned" /\ clients[c].connected

\* the catalog holds a capability of the backend of client c
InCatalog(c) ==
    /\ c \in Clients
    /\ \E e \in Range(getToolsForUser(NoUser)) : e.serverId = ClientId(c)

\* C33: once the connect of an enabled backend has succeeded, capabilities of
\* that backend eventually appear in the catalog (or the connection is closed
\* again), even when the connect attempt of another backend never settles.
C33_SucceededEventuallyListed ==
    \A c \in 1..MaxClients :
        ConnectSucceeded(c) ~> (InCatalog(c) \/ ~ConnectSucceeded(c))

---------------------------------------------------------------------------
(* C34 *)

\* the clients on which the stopAll in flight has called disconnect()
DisconnectBegun == UNION {r.snapshot : r \in stop}

\* C34: a dispatch routed to a connection on which disconnect() has begun
\* fails with ServerConnectionError and sends nothing to the backend, also
\* while the close of the channel is still in flight.
C34_NoForwardAfterDisconnectBegan ==
    \A name \in DispatchNames, user \in Users :
        LET resolved == resolveToolCall(name)
            server == MapGet(servers, resolved.serverId)
        IN  (/\ resolved.error = "none"
             /\ server # Absent
             /\ server \subseteq DisconnectBegun)
            => /\ routeToolCall(name, user).sent = {}
               /\ routeToolCall(name, user).outcome
                      \in {"ServerConnectionError", "AuthorizationError"}

---------------------------------------------------------------------------
(* C35 *)

\* the namespaced names of the catalog a caller gets
CatalogNames(user) == {tool.name : tool \in Range(getToolsForUser(user))}

\* the failures of resolution, of the lookup of the owner and of the scope check
RefusedOutcomes == {"ToolNotFoundError", "ServerNotFoundError", "AuthorizationError"}

\* C35: for every caller, a namespaced name is in the catalog of that caller
\* exactly when its dispatch for the same caller passes resolution and the
\* scope check.
C35_CatalogAgreesWithDispatch ==
    \A name \in DispatchNames \cup RegistryNames, user \in Users :
        name \in CatalogNames(user)
        <=> routeToolCall(name, user).outcome \notin RefusedOutcomes

\* a dispatch has just been refused for want of scopes, while the same caller
\* holds another name in its catalog whose dispatch passes
C35_Witness ==
    /\ last.op = "dispatch"
    /\ last.result.outcome = "AuthorizationError"
    /\ \E user \in AuthenticatedUsers :
           /\ \E name \in RegistryNames \ CatalogNames(user) :
                  routeToolCall(name, user) = last.result
           /\ \E name \in CatalogNames(user) :
                  routeToolCall(name, user).outcome \notin RefusedOutcomes

---------------------------------------------------------------------------
(* C36 *)

\* a connection that is not connected caches no capability
EmptyWhenDisconnected(r) == ~r.connected => r.tools = <<>>

---------------------------------------------------------------------------
(* C37 *)

\* the names the gateway server of the active /mcp session offers
SessionTools == UNION {Range(r.server.tools) : r \in session}

\* C37: when the only startAll has just completed, every capability of the
\* catalog is offered by the gateway server of the active /mcp session, also
\* of a session initialized before the startAll completed.
C37_SessionOffersCatalog ==
    (/\ last.op = "startAll"
     /\ OneStartAll
     /\ session # Absent)
    => \A tool \in Range(getToolsForUser(NoUser)) : tool.name \in SessionTools

---------------------------------------------------------------------------
(* C38 *)

\* the backend ids and capability names of the definitions, the backends and
\* the registry snapshot
KnownIds == Ids \cup {e.serverId : e \in RegistryEntries}
KnownToolNames ==
    ToolNames \cup {ToolNonexistent} \cup {e.originalName : e \in RegistryEntries}

\* C38: parseNamespacedName splits at the first separator: for a backend id b
\* without the separator and any capability name c, the namespaced name of
\* (b, c) parses to (b, c), in particular for every entry of the registry;
\* a name without a separator parses to null.
C38_ParseSplitsAtFirst ==
    /\ \A b \in KnownIds, c \in KnownToolNames :
           SeparatorFree(b) =>
               parseNamespacedName(buildNamespacedName(b, c)) =
                   Some([serverId |-> b, toolName |-> c])
    /\ \A e \in RegistryEntries :
           SeparatorFree(e.serverId) =>
               parseNamespacedName(e.name) =
                   Some([serverId |-> e.serverId, toolName |-> e.originalName])
    /\ \A n \in KnownIds \cup KnownToolNames :
           SeparatorFree(n) => parseNamespacedName(n) = Absent

\* the registry holds an entry of a backend with a separator-free id whose
\* capability name contains the separator, and the name of the entry parses
\* to that backend and that capability
C38_Witness ==
    \E e \in RegistryEntries :
        /\ SeparatorFree(e.serverId)
        /\ ~SeparatorFree(e.originalName)
        /\ parseNamespacedName(e.name) =
               Some([serverId |-> e.serverId, toolName |-> e.originalName])
        /\ parseNamespacedName(e.serverId) = Absent

====
